---- MODULE Spec2Model ----
(***************************************************************************)
(* Model of src/ssh_dispather.py: the device-type dispatcher               *)
(* (ConnectHandler, ssh_dispatcher, redispatch, FileTransfer) and its      *)
(* wrappers (TelnetFallback, ConnLogOnly, ConnUnify).                      *)
(*                                                                         *)
(* Python strings are sequences of one-character strings, so that the      *)
(* substring tests ("telnet" in device_type, device_type in platforms_str) *)
(* and re.sub are computed, not assumed.  A str(e) or a log message whose  *)
(* exact wording does not matter is the set of the phrases it contains.    *)
(***************************************************************************)
EXTENDS Integers, Sequences, FiniteSets, TLC

VARIABLES obj, last, logCfg, log

vars == <<obj, last, logCfg, log>>

\* Bound on the number of records in the log file.
MaxLog == 2

----------------------------------------------------------------------------
(* Strings *)

\* Python's `p in s` for strings: p occurs in s as a contiguous substring.
IsSubstr(p, s) ==
    \E i \in 0..(Len(s) - Len(p)) : SubSeq(s, i + 1, i + Len(p)) = p

RECURSIVE re_sub(_, _, _)
\* re.sub(pat, rep, s) for a literal pattern: every leftmost non-overlapping
\* occurrence of pat in s is replaced by rep.
re_sub(pat, rep, s) ==
    IF Len(s) < Len(pat) THEN s
    ELSE IF SubSeq(s, 1, Len(pat)) = pat
         THEN rep \o re_sub(pat, rep, SubSeq(s, Len(pat) + 1, Len(s)))
         ELSE <<Head(s)>> \o re_sub(pat, rep, Tail(s))

RECURSIVE join(_, _)
\* sep.join(strs)
join(sep, strs) ==
    IF strs = <<>> THEN <<>>
    ELSE IF Len(strs) = 1 THEN strs[1]
    ELSE strs[1] \o sep \o join(sep, Tail(strs))

NL == <<"\n">>
S_ssh == <<"_", "s", "s", "h">>
S_telnet == <<"_", "t", "e", "l", "n", "e", "t">>
telnet == <<"t", "e", "l", "n", "e", "t">>

\* Python's None where a string is expected (no string is equal to it:
\* strings are built of one-character elements).
None == <<"None">>

a10 == <<"a", "1", "0">>
cisco_ios == <<"c", "i", "s", "c", "o", "_", "i", "o", "s">>
a10_ssh == a10 \o S_ssh
cisco_ios_ssh == cisco_ios \o S_ssh
cisco_ios_telnet == cisco_ios \o S_telnet
\* device types that are no key of the registry
cisco == <<"c", "i", "s", "c", "o">>
junk_telnet == <<"x">> \o S_telnet

----------------------------------------------------------------------------
(* The registries *)

\* device_type -> connection class, base names only
CLASS_MAPPER_BASE ==
    [k \in {a10, cisco_ios} |->
        IF k = a10 THEN "A10SSH" ELSE "CiscoIosSSH"]

\* the base names, their "_ssh" alternatives, and the Telnet drivers
CLASS_MAPPER ==
    [k \in DOMAIN CLASS_MAPPER_BASE
           \cup {b \o S_ssh : b \in DOMAIN CLASS_MAPPER_BASE}
           \cup {cisco_ios_telnet} |->
        IF k = cisco_ios_telnet THEN "CiscoIosTelnet"
        ELSE IF k \in DOMAIN CLASS_MAPPER_BASE THEN CLASS_MAPPER_BASE[k]
        ELSE CLASS_MAPPER_BASE[SubSeq(k, 1, Len(k) - Len(S_ssh))]]

\* device_type -> file-transfer class, with the "_ssh" alternatives
FILE_TRANSFER_MAP ==
    [k \in {cisco_ios, cisco_ios_ssh} |-> "CiscoIosFileTransfer"]

platforms == DOMAIN CLASS_MAPPER

\* "\n" + "\n".join(sorted base names)
platforms_str == NL \o join(NL, <<a10, cisco_ios>>)

\* "\n" + "\n".join(the sorted keys that contain "telnet")
telnet_platforms_str == NL \o join(NL, <<cisco_ios_telnet>>)

scp_platforms == DOMAIN FILE_TRANSFER_MAP

scp_platforms_str == NL \o join(NL, <<cisco_ios, cisco_ios_ssh>>)

----------------------------------------------------------------------------
(* Exceptions and connection handles *)

NetmikoTimeoutException == "NetmikoTimeoutException"
NetmikoAuthenticationException == "NetmikoAuthenticationException"
ConnectionException == "ConnectionException"
ConnectionRefusedError == "ConnectionRefusedError"

\* An exception: its type, the phrases its str() contains, and (for the
\* dispatcher's own ValueError) the platform list formatted into the message.
Exc(type, text, detail) == [type |-> type, text |-> text, detail |-> detail]

\* no exception: the call returned
NoExc == Exc("none", {}, <<>>)

\* the phrases ConnLogOnly searches a timeout's message for, and the target
DNS == "DNS failure"
TCP == "TCP connection to device failed"
HostPort == "host:port"

\* A connection handle.  session: "unopened" (constructed with
\* auto_connect=False), "open" (the transport is up), "closed".
Handle(cls, kwargs, session) ==
    [device_type |-> kwargs.device_type, cls |-> cls, host |-> kwargs.host,
     port |-> kwargs.port, session |-> session]

\* What the handler's constructor itself can raise (bad arguments); it does
\* no network I/O before _open.
CtorFailures == {Exc("ValueError", {}, <<>>)}

\* What _open can raise, and the state it leaves the transport in.  A DNS
\* failure, an unreachable port, a refused connection, a timeout and a failed
\* authentication are raised with no transport left up; any other exception
\* (a failed login handler, a read error while preparing the session) can be
\* raised on an established transport, which _open may or may not tear down.
OpenFailures ==
    {f \in [exc : {Exc(t, x, <<>>) :
                     t \in {NetmikoTimeoutException, NetmikoAuthenticationException,
                            ConnectionRefusedError, "Exception"},
                     x \in SUBSET {DNS, TCP, HostPort}},
            left : {"closed", "open"}] :
        /\ f.exc.type # NetmikoTimeoutException => f.exc.text \subseteq {HostPort}
        /\ f.exc.type \in {ConnectionRefusedError, NetmikoAuthenticationException}
              => f.exc.text = {}
        /\ f.exc.type # "Exception" => f.left = "closed"}

\* the environment of one construction: what the constructor raises, or else
\* what _open does
Envs ==
    [ctor : CtorFailures, open : {[exc |-> NoExc, left |-> "open"]}]
      \cup [ctor : {NoExc},
            open : {[exc |-> NoExc, left |-> "open"]} \cup OpenFailures]

\* The outcome of a call: the exception raised (NoExc: it returned), the
\* value returned (<<>> is None), the handles constructed on the way, in
\* their final state, the registry lookups and constructor calls made, the
\* keyword arguments of each ConnectHandler attempt, the records handed to
\* the logger, and the session preparations run.
Outcome(exc, ret, made) ==
    [exc |-> exc, ret |-> ret, made |-> made, lookups |-> 0, ctors |-> 0,
     attempts |-> <<>>, emitted |-> <<>>, prep |-> 0, transfer |-> <<>>]

\* net_connect._open(): the session is open, or the exception is raised
_open(h, env) ==
    IF env.open.exc = NoExc
    THEN Outcome(NoExc, <<[h EXCEPT !.session = "open"]>>,
                 <<[h EXCEPT !.session = "open"]>>)
    ELSE Outcome(env.open.exc, <<>>, <<[h EXCEPT !.session = env.open.left]>>)

\* ConnectionClass(*args, **kwargs): the handler's constructor, which opens
\* the session itself unless auto_connect is false
Construct(cls, kwargs, env) ==
    IF env.ctor # NoExc THEN Outcome(env.ctor, <<>>, <<>>)
    ELSE IF kwargs.auto_connect THEN _open(Handle(cls, kwargs, "unopened"), env)
    ELSE Outcome(NoExc, <<Handle(cls, kwargs, "unopened")>>,
                 <<Handle(cls, kwargs, "unopened")>>)

----------------------------------------------------------------------------
(* The dispatcher *)

\* ssh_dispatcher(device_type): CLASS_MAPPER[device_type], used where the key
\* is known to be present
ssh_dispatcher(device_type) == CLASS_MAPPER[device_type]

\* msg_str without the "telnet" filter
msg_str_unfiltered(device_type) == platforms_str

\* the list formatted into the unsupported-platform message
msg_str(device_type) ==
    IF device_type = None THEN platforms_str
    ELSE IF IsSubstr(telnet, device_type) THEN telnet_platforms_str
    ELSE platforms_str

\* one ConnectHandler attempt: the keyword arguments it was given and the
\* exception it ended with (NoExc: it returned)
Attempt(kwargs, exc) == [kwargs |-> kwargs, exc |-> exc]

\* ConnectHandler(**kwargs)
ConnectHandler(kwargs, env) ==
    IF kwargs.device_type \notin platforms
    THEN LET e == Exc("ValueError", {"Unsupported 'device_type'"},
                      msg_str(kwargs.device_type))
         IN  [Outcome(e, <<>>, <<>>) EXCEPT !.attempts = <<Attempt(kwargs, e)>>]
    ELSE LET r == Construct(ssh_dispatcher(kwargs.device_type), kwargs, env)
         IN  [r EXCEPT !.lookups = 1, !.ctors = 1,
                       !.attempts = <<Attempt(kwargs, r.exc)>>]

\* the device types the except clause of TelnetFallback binds
\* alternative_device for
HasAlternative(device_type) ==
    IsSubstr(device_type, platforms_str) \/ IsSubstr(S_ssh, device_type)

\* alternative_device without the "_ssh" substitution
alternative_device_appended(device_type) == device_type \o S_telnet

\* the Telnet key TelnetFallback derives from device_type
alternative_device(device_type) ==
    IF IsSubstr(device_type, platforms_str) THEN device_type \o S_telnet
    ELSE re_sub(S_ssh, S_telnet, device_type)

\* the second attempt's outcome, with the first attempt's record kept
Retry(r1, r2) ==
    [r2 EXCEPT !.made = r1.made \o r2.made,
               !.lookups = r1.lookups + r2.lookups,
               !.ctors = r1.ctors + r2.ctors,
               !.attempts = r1.attempts \o r2.attempts]

\* TelnetFallback whose except clause also catches authentication failures
TelnetFallback_catching_auth(kwargs, env1, env2) ==
    LET r1 == ConnectHandler(kwargs, env1)
        dt == kwargs.device_type
    IN  IF r1.exc.type \notin {NetmikoTimeoutException, ConnectionRefusedError,
                               NetmikoAuthenticationException}
        THEN r1
        ELSE IF ~HasAlternative(dt)
        THEN [r1 EXCEPT !.exc = Exc("UnboundLocalError", {}, <<>>)]
        ELSE IF alternative_device(dt) \in platforms
        THEN Retry(r1, ConnectHandler(
                 [kwargs EXCEPT !.device_type = alternative_device(dt)], env2))
        ELSE r1

\* TelnetFallback(**kwargs): env1 and env2 are what the first and the second
\* construction meet
TelnetFallback(kwargs, env1, env2) ==
    LET r1 == ConnectHandler(kwargs, env1)
        dt == kwargs.device_type
    IN  IF r1.exc.type \notin {NetmikoTimeoutException, ConnectionRefusedError}
        THEN r1
        ELSE IF ~HasAlternative(dt)
        THEN [r1 EXCEPT !.exc = Exc("UnboundLocalError", {}, <<>>)]
        ELSE IF alternative_device(dt) \in platforms
        THEN Retry(r1, ConnectHandler(
                 [kwargs EXCEPT !.device_type = alternative_device(dt)], env2))
        ELSE r1

----------------------------------------------------------------------------
(* Logging *)

\* logging.INFO, the level of logger.info
INFO == 20

\* logging.ERROR, the level of logger.error and the default log_level
ERROR == 40

\* log_level=None
NoLevel == -1

\* a record handed to the logger: its level and the phrases of its message
LogRecord(levelno, msg) == [levelno |-> levelno, msg |-> msg]

\* logging.basicConfig(level=...): configures the root logger once per
\* process; later calls change nothing
basicConfig(cfg, log_level) ==
    IF cfg.configured THEN cfg
    ELSE [configured |-> TRUE,
          level |-> IF log_level = NoLevel THEN ERROR ELSE log_level]

\* the records of `emitted` that reach the file under configuration cfg
Written(cfg, emitted) ==
    SelectSeq(emitted, LAMBDA r : r.levelno >= cfg.level)

\* LogMessage whose TCP branch leaves the target out
LogMessage_no_target(e) ==
    IF e.type = NetmikoAuthenticationException
    THEN {"Authentication failure to:", HostPort, "device_type"} \cup e.text
    ELSE IF e.type = NetmikoTimeoutException
    THEN IF DNS \in e.text
         THEN {"Device failed due to a DNS failure", "hostname"}
         ELSE IF TCP \in e.text
         THEN {"Netmiko was unable to reach the provided host and port"}
                 \cup e.text
         ELSE {"An unknown NetmikoTimeoutException occurred"} \cup e.text
    ELSE {"An unknown exception occurred during connection"} \cup e.text

\* the message ConnLogOnly logs for exception e
LogMessage(e) ==
    IF e.type = NetmikoAuthenticationException
    THEN {"Authentication failure to:", HostPort, "device_type"} \cup e.text
    ELSE IF e.type = NetmikoTimeoutException
    THEN IF DNS \in e.text
         THEN {"Device failed due to a DNS failure", "hostname"}
         ELSE IF TCP \in e.text
         THEN {"Netmiko was unable to reach the provided host and port",
               HostPort} \cup e.text
         ELSE {"An unknown NetmikoTimeoutException occurred"} \cup e.text
    ELSE {"An unknown exception occurred during connection"} \cup e.text

\* whether the handler chosen for e reads hostname, port or device_type
ReadsTarget(e) ==
    e.type \in {NetmikoAuthenticationException, NetmikoTimeoutException}

\* the try block shared by ConnLogOnly and ConnUnify: construct with
\* auto_connect=False, read host, port and device_type, then _open; the
\* attempt's record keeps the exception the block ended with
TryConnect(kwargs, env) ==
    LET r1 == ConnectHandler([kwargs EXCEPT !.auto_connect = FALSE], env)
    IN  IF r1.exc # NoExc THEN r1
        ELSE LET r2 == _open(r1.ret[1], env)
             IN  [r1 EXCEPT !.exc = r2.exc, !.ret = r2.ret, !.made = r2.made,
                            !.attempts[1].exc = r2.exc]

\* ConnLogOnly without its last except clause
ConnLogOnly_no_catch_all(kwargs, env) ==
    LET r == TryConnect(kwargs, env)
    IN  IF r.exc = NoExc
        THEN [r EXCEPT !.emitted = <<LogRecord(INFO,
                          {"Netmiko connection succesful to", HostPort})>>]
        ELSE IF ReadsTarget(r.exc) /\ r.made = <<>>
        THEN [r EXCEPT !.exc = Exc("UnboundLocalError", {}, <<>>)]
        ELSE IF ~ReadsTarget(r.exc) THEN r
        ELSE [r EXCEPT !.exc = NoExc, !.ret = <<>>,
                       !.emitted = <<LogRecord(ERROR, LogMessage(r.exc))>>]

\* ConnLogOnly(log_level=..., **kwargs), apart from the logging set-up
ConnLogOnly(kwargs, env) ==
    LET r == TryConnect(kwargs, env)
    IN  IF r.exc = NoExc
        THEN [r EXCEPT !.emitted = <<LogRecord(INFO,
                          {"Netmiko connection succesful to", HostPort})>>]
        ELSE IF ReadsTarget(r.exc) /\ r.made = <<>>
        THEN [r EXCEPT !.exc = Exc("UnboundLocalError", {}, <<>>)]
        ELSE [r EXCEPT !.exc = NoExc, !.ret = <<>>,
                       !.emitted = <<LogRecord(ERROR, LogMessage(r.exc))>>]

\* the message of the ConnectionException ConnUnify raises for e
UnifyMessage(e) ==
    IF ReadsTarget(e)
    THEN {"Connection failure to", HostPort, "device_type"} \cup e.text
    ELSE {"An unknown exception occurred during connection"} \cup e.text

\* ConnUnify without its last except clause
ConnUnify_no_catch_all(kwargs, env) ==
    LET r == TryConnect(kwargs, env)
    IN  IF r.exc = NoExc THEN r
        ELSE IF ReadsTarget(r.exc) /\ r.made = <<>>
        THEN [r EXCEPT !.exc = Exc("UnboundLocalError", {}, <<>>)]
        ELSE IF ~ReadsTarget(r.exc) THEN r
        ELSE [r EXCEPT !.exc = Exc(ConnectionException, UnifyMessage(r.exc),
                                   r.exc.detail)]

\* ConnUnify(**kwargs)
ConnUnify(kwargs, env) ==
    LET r == TryConnect(kwargs, env)
    IN  IF r.exc = NoExc THEN r
        ELSE IF ReadsTarget(r.exc) /\ r.made = <<>>
        THEN [r EXCEPT !.exc = Exc("UnboundLocalError", {}, <<>>)]
        ELSE [r EXCEPT !.exc = Exc(ConnectionException, UnifyMessage(r.exc),
                                   r.exc.detail)]

----------------------------------------------------------------------------
(* redispatch and FileTransfer *)

\* what obj._try_session_preparation() can do: return, or raise and leave
\* the session as it was or closed
PrepEnvs(o) ==
    {[exc |-> NoExc, left |-> o.session]}
      \cup [exc : {Exc("Exception", {}, <<>>)}, left : {o.session, "closed"}]

\* redispatched with obj.device_type assigned before the class is looked up
redispatched_assign_first(o, device_type, session_prep, penv) ==
    IF device_type \notin DOMAIN CLASS_MAPPER
    THEN [o EXCEPT !.device_type = device_type]
    ELSE [o EXCEPT !.device_type = device_type,
                   !.cls = ssh_dispatcher(device_type),
                   !.session = IF session_prep THEN penv.left ELSE @]

\* the handle o after redispatch(o, device_type, session_prep)
redispatched(o, device_type, session_prep, penv) ==
    IF device_type \notin DOMAIN CLASS_MAPPER THEN o
    ELSE [o EXCEPT !.device_type = device_type,
                   !.cls = ssh_dispatcher(device_type),
                   !.session = IF session_prep THEN penv.left ELSE @]

\* redispatch(obj, device_type, session_prep): what the call itself does
redispatch(o, device_type, session_prep, penv) ==
    IF device_type \notin DOMAIN CLASS_MAPPER
    THEN Outcome(Exc("KeyError", {}, <<>>), <<>>, <<>>)
    ELSE [Outcome(IF session_prep THEN penv.exc ELSE NoExc, <<>>, <<>>)
            EXCEPT !.lookups = 1, !.prep = IF session_prep THEN 1 ELSE 0]

\* the device_type FileTransfer reads: of args[0] when there is one, else of
\* kwargs["ssh_conn"]; <<>> when neither is given (KeyError)
TransferDeviceType(args, kwargs) ==
    IF Len(args) >= 1 THEN <<args[1].device_type>>
    ELSE IF kwargs.ssh_conn = <<>> THEN <<>>
    ELSE <<kwargs.ssh_conn[1].device_type>>

\* FileTransfer that validates against the platform registry
FileTransfer_any_platform(args, kwargs, fenv) ==
    LET dt == TransferDeviceType(args, kwargs)
    IN  IF dt = <<>> THEN Outcome(Exc("KeyError", {}, <<>>), <<>>, <<>>)
        ELSE IF dt[1] \notin platforms
        THEN Outcome(Exc("ValueError", {"Unsupported SCP device_type"},
                         scp_platforms_str), <<>>, <<>>)
        ELSE IF dt[1] \notin scp_platforms
        THEN Outcome(Exc("KeyError", {}, <<>>), <<>>, <<>>)
        ELSE [Outcome(fenv, <<>>, <<>>)
                EXCEPT !.lookups = 1, !.transfer = <<FILE_TRANSFER_MAP[dt[1]]>>]

\* FileTransfer(*args, **kwargs); fenv is what the transfer class's
\* constructor raises
FileTransfer(args, kwargs, fenv) ==
    LET dt == TransferDeviceType(args, kwargs)
    IN  IF dt = <<>> THEN Outcome(Exc("KeyError", {}, <<>>), <<>>, <<>>)
        ELSE IF dt[1] \notin scp_platforms
        THEN Outcome(Exc("ValueError", {"Unsupported SCP device_type"},
                         scp_platforms_str), <<>>, <<>>)
        ELSE [Outcome(fenv, <<>>, <<>>)
                EXCEPT !.lookups = 1, !.transfer = <<FILE_TRANSFER_MAP[dt[1]]>>]

----------------------------------------------------------------------------
(* The state and the calls *)

DeviceTypes == platforms \cup {None, cisco, junk_telnet}

Kwargs ==
    [device_type : DeviceTypes, host : {"sw1"}, port : {22},
     auto_connect : BOOLEAN]

\* log_level arguments: None, INFO, ERROR, CRITICAL
LogLevels == {NoLevel, INFO, ERROR, 50}

\* handles a caller can pass as ssh_conn=...
KwHandles ==
    {Handle(CLASS_MAPPER[k], [device_type |-> k, host |-> "sw2", port |-> 22],
            "open") : k \in {a10, cisco_ios_ssh}}

\* The state: obj is the handle the caller got from ConnectHandler (<<>>: none
\* yet), logCfg the root logger's configuration, log the number of records in
\* the log file, and last the last call: its name, its device_type and flag
\* arguments, the handles passed to it, its outcome, and the number of records
\* it added to the log file.
Call(op, device_type, flag, inputs, out, written) ==
    [op |-> op, device_type |-> device_type, flag |-> flag, inputs |-> inputs,
     out |-> out, written |-> written]

Init ==
    /\ obj = <<>>
    /\ last = Call("none", None, FALSE, <<>>, Outcome(NoExc, <<>>, <<>>), 0)
    /\ logCfg = [configured |-> FALSE, level |-> 30]
    /\ log = 0

\* obj = ConnectHandler(**kwargs)
ConnectHandlerCall ==
    \E kwargs \in Kwargs, env \in Envs :
        LET r == ConnectHandler(kwargs, env)
        IN  /\ last' = Call("ConnectHandler", kwargs.device_type,
                            kwargs.auto_connect, <<>>, r, 0)
            /\ obj' = IF r.exc = NoExc THEN r.ret ELSE obj
            /\ UNCHANGED <<logCfg, log>>

\* redispatch(obj, device_type, session_prep)
redispatchCall ==
    /\ obj # <<>>
    /\ \E device_type \in DeviceTypes, session_prep \in BOOLEAN,
          penv \in PrepEnvs(obj[1]) :
        /\ last' = Call("redispatch", device_type, session_prep, obj,
                        redispatch(obj[1], device_type, session_prep, penv), 0)
        /\ obj' = <<redispatched(obj[1], device_type, session_prep, penv)>>
        /\ UNCHANGED <<logCfg, log>>

\* FileTransfer(obj, ...), FileTransfer(ssh_conn=h, ...)
FileTransferCall ==
    \E args \in {<<>>, obj}, ssh_conn \in {<<>>} \cup {<<h>> : h \in KwHandles},
       fenv \in {NoExc} \cup CtorFailures :
        /\ last' = Call("FileTransfer", None, FALSE, <<args, ssh_conn>>,
                        FileTransfer(args, [ssh_conn |-> ssh_conn], fenv), 0)
        /\ UNCHANGED <<obj, logCfg, log>>

\* TelnetFallback(**kwargs)
TelnetFallbackCall ==
    \E kwargs \in Kwargs, env1 \in Envs, env2 \in Envs :
        /\ last' = Call("TelnetFallback", kwargs.device_type,
                        kwargs.auto_connect, <<>>,
                        TelnetFallback(kwargs, env1, env2), 0)
        /\ UNCHANGED <<obj, logCfg, log>>

\* ConnLogOnly(log_level=log_level, **kwargs)
ConnLogOnlyCall ==
    /\ log < MaxLog
    /\ \E log_level \in LogLevels, kwargs \in Kwargs, env \in Envs :
        LET r == ConnLogOnly(kwargs, env)
            cfg == basicConfig(logCfg, log_level)
        IN  /\ logCfg' = cfg
            /\ log' = log + Len(Written(cfg, r.emitted))
            /\ last' = Call("ConnLogOnly", kwargs.device_type, FALSE, <<>>, r,
                            Len(Written(cfg, r.emitted)))
            /\ UNCHANGED obj

\* ConnUnify(**kwargs)
ConnUnifyCall ==
    \E kwargs \in Kwargs, env \in Envs :
        /\ last' = Call("ConnUnify", kwargs.device_type, FALSE, <<>>,
                        ConnUnify(kwargs, env), 0)
        /\ UNCHANGED <<obj, logCfg, log>>

\* the dispatcher proper
NextDispatch == ConnectHandlerCall \/ redispatchCall \/ FileTransferCall

SpecDispatch == Init /\ [][NextDispatch]_vars

\* the Telnet fallback
NextFallback == TelnetFallbackCall

SpecFallback == Init /\ [][NextFallback]_vars

\* the log-only and the raise wrapper
NextWrap == ConnLogOnlyCall \/ ConnUnifyCall

SpecWrap == Init /\ [][NextWrap]_vars

----------------------------------------------------------------------------
(* Properties *)

\* the exception types TelnetFallback recovers from
Recovered == {NetmikoTimeoutException, ConnectionRefusedError}

\* the connection attempts of the last call
attempts == last.out.attempts

\* the last call failed: it raised, or (ConnLogOnly) it returned None
Failed ==
    \/ last.op \in {"TelnetFallback", "ConnUnify"} /\ last.out.exc # NoExc
    \/ last.op = "ConnLogOnly" /\ last.out.exc = NoExc /\ last.out.ret = <<>>

\* C1: every ConnUnify call either returns a handle whose session is open or
\* raises ConnectionException, whatever failed and wherever; the original
\* message is carried in the exception raised.
C1_UnifyOpenOrConnectionException ==
    last.op = "ConnUnify" =>
        \/ /\ last.out.exc = NoExc
           /\ Len(last.out.ret) = 1
           /\ last.out.ret[1].session = "open"
        \/ /\ last.out.exc.type = ConnectionException
           /\ last.out.ret = <<>>
           /\ attempts[1].exc.text \subseteq last.out.exc.text
           /\ attempts[1].exc.detail = last.out.exc.detail

\* C1 witness: ConnUnify raised ConnectionException for a timeout met in _open.
C1_Witness ==
    /\ last.op = "ConnUnify"
    /\ last.out.exc.type = ConnectionException
    /\ last.out.made # <<>>
    /\ attempts[1].exc.type = NetmikoTimeoutException

\* C2: ConnLogOnly never raises: on any failure it returns None, on success
\* the opened handle.
C2_LogOnlyNeverRaises ==
    last.op = "ConnLogOnly" =>
        /\ last.out.exc = NoExc
        /\ attempts[1].exc # NoExc => last.out.ret = <<>>
        /\ attempts[1].exc = NoExc =>
              /\ Len(last.out.ret) = 1
              /\ last.out.ret[1].session = "open"

\* C2 witness: ConnLogOnly returned None for a failure other than
\* authentication or timeout, met in _open.
C2_Witness ==
    /\ last.op = "ConnLogOnly"
    /\ last.out.ret = <<>>
    /\ last.out.made # <<>>
    /\ attempts[1].exc.type = ConnectionRefusedError

\* C3: after a failed TelnetFallback, ConnUnify or ConnLogOnly call, no handle
\* constructed during the call holds an open transport.
C3_NoLeakOnFailure ==
    Failed => \A i \in DOMAIN last.out.made : last.out.made[i].session = "closed"

\* the Telnet variant of a device type, as the specification derives it: the
\* "_ssh" suffix replaced by "_telnet", or "_telnet" appended to a base name
TelnetVariant(dt) ==
    IF Len(dt) >= Len(S_ssh) /\ SubSeq(dt, Len(dt) - Len(S_ssh) + 1, Len(dt)) = S_ssh
    THEN SubSeq(dt, 1, Len(dt) - Len(S_ssh)) \o S_telnet
    ELSE dt \o S_telnet

\* the first attempt of the last TelnetFallback call met a timeout or a
\* refused connection
FirstRecovered ==
    /\ last.op = "TelnetFallback"
    /\ attempts[1].exc.type \in Recovered

\* C4: when the first attempt fails with a timeout or a refused connection and
\* the Telnet variant is registered, a second attempt is made with the Telnet
\* key and otherwise the same arguments, and its handle is the result.
C4_FallbackRetriesWithTelnet ==
    FirstRecovered /\ TelnetVariant(last.device_type) \in platforms =>
        /\ Len(attempts) = 2
        /\ attempts[2].kwargs =
              [attempts[1].kwargs EXCEPT !.device_type = TelnetVariant(last.device_type)]
        /\ attempts[2].exc = NoExc =>
              /\ last.out.exc = NoExc
              /\ Len(last.out.ret) = 1
              /\ last.out.ret[1].device_type = TelnetVariant(last.device_type)
              /\ last.out.ret[1].cls = CLASS_MAPPER[TelnetVariant(last.device_type)]

\* C4 witness: an "_ssh" device type timed out and the Telnet retry succeeded.
C4_Witness ==
    /\ FirstRecovered
    /\ last.device_type = cisco_ios_ssh
    /\ attempts[1].exc.type = NetmikoTimeoutException
    /\ Len(attempts) = 2
    /\ last.out.exc = NoExc
    /\ last.out.ret[1].device_type = cisco_ios_telnet

\* C5: when the first attempt fails with a timeout or a refused connection and
\* no Telnet variant is registered, that failure is re-raised; a failure of
\* the retry is propagated.
C5_FallbackReraises ==
    FirstRecovered =>
        /\ TelnetVariant(last.device_type) \notin platforms =>
              last.out.exc = attempts[1].exc
        /\ Len(attempts) = 2 => last.out.exc = attempts[2].exc

\* C6: for a device_type that is no key of the registry (None included)
\* ConnectHandler raises the unsupported-platform error before any lookup or
\* construction, with the Telnet list when device_type contains "telnet" and
\* the platform list otherwise.
C6_UnsupportedPlatform ==
    last.op = "ConnectHandler" /\ last.device_type \notin DOMAIN CLASS_MAPPER =>
        /\ last.out.exc.type = "ValueError"
        /\ "Unsupported 'device_type'" \in last.out.exc.text
        /\ last.out.lookups = 0
        /\ last.out.ctors = 0
        /\ last.out.made = <<>>
        /\ last.device_type = junk_telnet =>
              last.out.exc.detail = telnet_platforms_str
        /\ last.device_type \in {None, cisco} =>
              last.out.exc.detail = platforms_str

\* C6 witness: an unregistered device type that contains "telnet" was refused.
C6_Witness ==
    /\ last.op = "ConnectHandler"
    /\ last.device_type = junk_telnet
    /\ last.out.exc.type = "ValueError"

\* the failure the last ConnLogOnly call met
cause == attempts[1].exc

\* C7 as stated: every failed ConnLogOnly call writes exactly one log record,
\* and that record contains host:port.
C7_OneRecordWithHostPort ==
    last.op = "ConnLogOnly" /\ Failed =>
        /\ last.written = 1
        /\ HostPort \in last.out.emitted[1].msg

\* C7 amended: every failed ConnLogOnly call hands exactly one record, of
\* level ERROR, to the logger, and it is written when the configured level is
\* at most ERROR; the record contains host:port for an authentication failure
\* and a TCP-connect timeout, the hostname without the port for a DNS-failure
\* timeout, and otherwise only what the exception's own text contains.
C7_OneErrorRecord ==
    last.op = "ConnLogOnly" /\ Failed =>
        /\ Len(last.out.emitted) = 1
        /\ last.out.emitted[1].levelno = ERROR
        /\ last.written = IF logCfg.level <= ERROR THEN 1 ELSE 0
        /\ cause.type = NetmikoAuthenticationException =>
              HostPort \in last.out.emitted[1].msg
        /\ cause.type = NetmikoTimeoutException /\ DNS \in cause.text =>
              /\ "hostname" \in last.out.emitted[1].msg
              /\ HostPort \notin last.out.emitted[1].msg
        /\ cause.type = NetmikoTimeoutException /\ DNS \notin cause.text
              /\ TCP \in cause.text =>
              HostPort \in last.out.emitted[1].msg
        /\ (cause.type \notin {NetmikoAuthenticationException, NetmikoTimeoutException}
              \/ (cause.type = NetmikoTimeoutException /\ cause.text \cap {DNS, TCP} = {})) =>
              (HostPort \in last.out.emitted[1].msg <=> HostPort \in cause.text)

\* C7 witness: a TCP-connect timeout whose own text does not name the target
\* was logged, and the record reached the file.
C7_Witness ==
    /\ last.op = "ConnLogOnly"
    /\ Failed
    /\ cause.type = NetmikoTimeoutException
    /\ cause.text = {TCP}
    /\ last.written = 1

\* the arguments of the last FileTransfer call
ft_args == last.inputs[1]
ft_ssh_conn == last.inputs[2]

\* C8: FileTransfer reads device_type from the first positional argument when
\* there is one, else from ssh_conn; a device_type outside the SCP registry
\* (a registered platform included) raises the unsupported-SCP error and
\* constructs nothing; one inside constructs the class mapped to it.
C8_FileTransferDispatch ==
    last.op = "FileTransfer" /\ (ft_args # <<>> \/ ft_ssh_conn # <<>>) =>
        LET device_type == IF ft_args # <<>> THEN ft_args[1].device_type
                           ELSE ft_ssh_conn[1].device_type
        IN  /\ device_type \notin DOMAIN FILE_TRANSFER_MAP =>
                  /\ last.out.exc.type = "ValueError"
                  /\ "Unsupported SCP device_type" \in last.out.exc.text
                  /\ last.out.transfer = <<>>
            /\ device_type \in DOMAIN FILE_TRANSFER_MAP =>
                  last.out.transfer = <<FILE_TRANSFER_MAP[device_type]>>

\* C8 witness: a handle of a registered platform without SCP support was
\* passed positionally, next to an ssh_conn of an SCP platform, and refused.
C8_Witness ==
    /\ last.op = "FileTransfer"
    /\ ft_args # <<>>
    /\ ft_args[1].device_type = a10
    /\ ft_ssh_conn # <<>>
    /\ ft_ssh_conn[1].device_type = cisco_ios_ssh
    /\ last.out.exc.type = "ValueError"

\* C9: redispatch with a registered device_type leaves the same handle with
\* that device_type and the class registered for it, and runs the session
\* preparation once if session_prep and not at all otherwise; with an
\* unregistered device_type it fails and leaves the handle as it was.
C9_Redispatch ==
    last.op = "redispatch" =>
        /\ last.device_type \in DOMAIN CLASS_MAPPER =>
              /\ obj[1].device_type = last.device_type
              /\ obj[1].cls = CLASS_MAPPER[last.device_type]
              /\ obj[1].host = last.inputs[1].host
              /\ obj[1].port = last.inputs[1].port
              /\ last.out.prep = IF last.flag THEN 1 ELSE 0
        /\ last.device_type \notin DOMAIN CLASS_MAPPER =>
              /\ last.out.exc # NoExc
              /\ obj = last.inputs
              /\ last.out.prep = 0

\* C9 witness: a handle was redispatched to another class with session
\* preparation.
C9_Witness ==
    /\ last.op = "redispatch"
    /\ last.flag
    /\ last.out.prep = 1
    /\ last.inputs[1].cls = "A10SSH"
    /\ obj[1].cls = "CiscoIosTelnet"

\* C10: TelnetFallback makes at most two attempts, the second only after the
\* first met a timeout or a refused connection; any other failure of the first
\* attempt propagates without a retry.
C10_AtMostOneRetry ==
    last.op = "TelnetFallback" =>
        /\ Len(attempts) \in {1, 2}
        /\ Len(attempts) = 2 => attempts[1].exc.type \in Recovered
        /\ attempts[1].exc.type \notin Recovered =>
              /\ Len(attempts) = 1
              /\ last.out.exc = attempts[1].exc

\* C10 witness: the first attempt failed authentication and was not retried,
\* although the Telnet variant is registered.
C10_Witness ==
    /\ last.op = "TelnetFallback"
    /\ last.device_type = cisco_ios
    /\ attempts[1].exc.type = NetmikoAuthenticationException
    /\ Len(attempts) = 1

====
